---- MODULE Spec2Model ----
(***************************************************************************)
(* ExportArchive.__call__ of ria_remote/export_archive.py: the export of a *)
(* local annex object store into a 7z archive through a staging tree of    *)
(* hardlinks in the hashdirlower layout.                                   *)
(*                                                                         *)
(* File names and path segments are sequences of byte codes (the bytes of  *)
(* str.encode()), so that the MD5 digest of a key name is computed, not    *)
(* assumed.  A key path of the object store is <<d, key>>: the directory   *)
(* d below annex/objects that holds the file, and the file's name.         *)
(***************************************************************************)
EXTENDS Integers, Sequences, FiniteSets, TLC

\* ------------------------------------------------------------------ bounds
\* directories below annex/objects that may hold key files
NumDirs == 2
\* invocations of the command one process makes in sequence
MaxRuns == 2

Procs == {1, 2}
Dirs == 1..NumDirs

\* "MD5E-s10--abc123"
KeyMD5E == <<77, 68, 53, 69, 45, 115, 49, 48, 45, 45, 97, 98, 99, 49, 50, 51>>
\* "SHA256E-s20--def456"
KeySHA256E == <<83, 72, 65, 50, 53, 54, 69, 45, 115, 50, 48, 45, 45, 100, 101, 102, 52, 53, 54>>
Keys == {KeyMD5E, KeySHA256E}
KeyPaths == Dirs \X Keys

\* ------------------------------------------- md5(key.encode()).hexdigest()
Pow2 == <<1, 2, 4, 8, 16, 32, 64, 128, 256, 512, 1024, 2048, 4096, 8192, 16384, 32768, 65536>>

\* bitwise operations on 16-bit halves
Bit(x, i) == (x \div Pow2[i + 1]) % 2
AndBit(x, y, i) == Bit(x, i) * Bit(y, i) * Pow2[i + 1]
XorBit(x, y, i) == ((Bit(x, i) + Bit(y, i)) % 2) * Pow2[i + 1]
And16(x, y) ==
    ((AndBit(x, y, 0) + AndBit(x, y, 1) + AndBit(x, y, 2) + AndBit(x, y, 3))
     + (AndBit(x, y, 4) + AndBit(x, y, 5) + AndBit(x, y, 6) + AndBit(x, y, 7)))
    + ((AndBit(x, y, 8) + AndBit(x, y, 9) + AndBit(x, y, 10) + AndBit(x, y, 11))
       + (AndBit(x, y, 12) + AndBit(x, y, 13) + AndBit(x, y, 14) + AndBit(x, y, 15)))
Xor16(x, y) ==
    ((XorBit(x, y, 0) + XorBit(x, y, 1) + XorBit(x, y, 2) + XorBit(x, y, 3))
     + (XorBit(x, y, 4) + XorBit(x, y, 5) + XorBit(x, y, 6) + XorBit(x, y, 7)))
    + ((XorBit(x, y, 8) + XorBit(x, y, 9) + XorBit(x, y, 10) + XorBit(x, y, 11))
       + (XorBit(x, y, 12) + XorBit(x, y, 13) + XorBit(x, y, 14) + XorBit(x, y, 15)))
Or16(x, y) == x + y - And16(x, y)

\* a 32-bit word is the pair <<high half, low half>>
Word(b0, b1, b2, b3) == <<b3 * 256 + b2, b1 * 256 + b0>>
ByteOf(w, j) == IF j = 0 THEN w[2] % 256 ELSE IF j = 1 THEN w[2] \div 256
                ELSE IF j = 2 THEN w[1] % 256 ELSE w[1] \div 256
Xor(a, b) == <<Xor16(a[1], b[1]), Xor16(a[2], b[2])>>
And(a, b) == <<And16(a[1], b[1]), And16(a[2], b[2])>>
Or(a, b)  == <<Or16(a[1], b[1]), Or16(a[2], b[2])>>
Not(a)    == <<65535 - a[1], 65535 - a[2]>>
RotL(a, s) ==
    LET hi == IF s >= 16 THEN a[2] ELSE a[1]
        lo == IF s >= 16 THEN a[1] ELSE a[2]
        r  == s % 16
    IN  <<((hi * Pow2[r + 1]) % 65536) + (lo \div Pow2[17 - r]),
          ((lo * Pow2[r + 1]) % 65536) + (hi \div Pow2[17 - r])>>
Add(a, b) == <<(a[1] + b[1] + ((a[2] + b[2]) \div 65536)) % 65536, (a[2] + b[2]) % 65536>>

MD5_S == <<7, 12, 17, 22, 7, 12, 17, 22, 7, 12, 17, 22, 7, 12, 17, 22,
           5,  9, 14, 20, 5,  9, 14, 20, 5,  9, 14, 20, 5,  9, 14, 20,
           4, 11, 16, 23, 4, 11, 16, 23, 4, 11, 16, 23, 4, 11, 16, 23,
           6, 10, 15, 21, 6, 10, 15, 21, 6, 10, 15, 21, 6, 10, 15, 21>>
MD5_K == <<
    <<55146, 42104>>, <<59591, 46934>>, <<9248, 28891>>, <<49597, 52974>>,
    <<62844, 4015>>, <<18311, 50730>>, <<43056, 17939>>, <<64838, 38145>>,
    <<27008, 39128>>, <<35652, 63407>>, <<65535, 23473>>, <<35164, 55230>>,
    <<27536, 4386>>, <<64920, 29075>>, <<42617, 17294>>, <<18868, 2081>>,
    <<63006, 9570>>, <<49216, 45888>>, <<9822, 23121>>, <<59830, 51114>>,
    <<54831, 4189>>, <<580, 5203>>, <<55457, 59009>>, <<59347, 64456>>,
    <<8673, 52710>>, <<49975, 2006>>, <<62677, 3463>>, <<17754, 5357>>,
    <<43491, 59653>>, <<64751, 41976>>, <<26479, 729>>, <<36138, 19594>>,
    <<65530, 14658>>, <<34673, 63105>>, <<28061, 24866>>, <<64997, 14348>>,
    <<42174, 59972>>, <<19422, 53161>>, <<63163, 19296>>, <<48831, 48240>>,
    <<10395, 32454>>, <<60065, 10234>>, <<54511, 12421>>, <<1160, 7429>>,
    <<55764, 53305>>, <<59099, 39397>>, <<8098, 31992>>, <<50348, 22117>>,
    <<62505, 8772>>, <<17194, 65431>>, <<43924, 9127>>, <<64659, 41017>>,
    <<25947, 22979>>, <<36620, 52370>>, <<65519, 62589>>, <<34180, 24017>>,
    <<28584, 32335>>, <<65068, 59104>>, <<41729, 17172>>, <<19976, 4513>>,
    <<63315, 32386>>, <<48442, 62005>>, <<10967, 53947>>, <<60294, 54161>> >>
MD5_IV == <<<<26437, 8961>>, <<61389, 43913>>,
            <<39098, 56574>>, <<4146, 21622>>>>

\* message bytes, the 0x80 marker, zero fill to 56 mod 64, bit length as 8 LE bytes
Pad(msg) ==
    LET n     == Len(msg)
        zeros == (119 - n) % 64
        bits  == 8 * n
        lenb  == [j \in 1..8 |-> IF j = 1 THEN bits % 256
                                 ELSE IF j = 2 THEN (bits \div 256) % 256
                                 ELSE IF j = 3 THEN (bits \div 65536) % 256
                                 ELSE 0]
    IN  msg \o <<128>> \o [j \in 1..zeros |-> 0] \o lenb

BlockWords(bytes, blk) ==
    [g \in 1..16 |-> LET o == 64 * blk + 4 * (g - 1)
                     IN  Word(bytes[o + 1], bytes[o + 2], bytes[o + 3], bytes[o + 4])]

MD5Step(st, M, i) ==
    LET A == st[1]  B == st[2]  C == st[3]  D == st[4]
        F == IF i < 16 THEN Or(And(B, C), And(Not(B), D))
             ELSE IF i < 32 THEN Or(And(D, B), And(Not(D), C))
             ELSE IF i < 48 THEN Xor(B, Xor(C, D))
             ELSE Xor(C, Or(B, Not(D)))
        g == IF i < 16 THEN i
             ELSE IF i < 32 THEN (5 * i + 1) % 16
             ELSE IF i < 48 THEN (3 * i + 5) % 16
             ELSE (7 * i) % 16
        T == Add(Add(Add(F, A), MD5_K[i + 1]), M[g + 1])
    IN  <<D, Add(B, RotL(T, MD5_S[i + 1])), B, C>>

\* the rounds i..n-1, by halves; {f(t) : t \in {e}} evaluates e once and binds its value
RECURSIVE Rounds(_, _, _, _)
Rounds(st, M, i, n) ==
    IF n = i + 1 THEN MD5Step(st, M, i)
    ELSE CHOOSE r \in {Rounds(t, M, (i + n) \div 2, n) :
                          t \in {Rounds(st, M, i, (i + n) \div 2)}} : TRUE

RECURSIVE Blocks(_, _, _)
Blocks(st, bytes, blk) ==
    IF 64 * blk >= Len(bytes) THEN st
    ELSE CHOOSE s \in {Blocks(<<Add(st[1], r[1]), Add(st[2], r[2]), Add(st[3], r[3]), Add(st[4], r[4])>>,
                              bytes, blk + 1) :
                          r \in {Rounds(st, M, 0, 64) : M \in {BlockWords(bytes, blk)}}} : TRUE

HexChar(d) == IF d < 10 THEN 48 + d ELSE 87 + d

hexdigest(msg) ==
    CHOOSE hex \in {[c \in 1..32 |->
                        LET b == ByteOf(st[((c - 1) \div 8) + 1], ((c - 1) \div 2) % 4)
                        IN  HexChar(IF c % 2 = 1 THEN b \div 16 ELSE b % 16)] :
                    st \in {Blocks(MD5_IV, bytes, 0) : bytes \in {Pad(msg)}}} : TRUE

\* ------------------------------------------------------- the staged layout
\* op.join(md5sum[:3], md5sum[3:6]) with 0-based slices read at 1-based positions one too far
hashdir_shifted(md5sum) == <<SubSeq(md5sum, 2, 4), SubSeq(md5sum, 5, 7)>>
\* hashdir = op.join(md5sum[:3], md5sum[3:6])
hashdir(md5sum) == <<SubSeq(md5sum, 1, 3), SubSeq(md5sum, 4, 6)>>

VARIABLES
    hashdirs,     \* hashdirs[key]: the hashdir of each key name, derived once per key name
    annex_objs,   \* .git/annex/objects: [isdir, subdirs, files]
    exportdir,    \* .git/datalad/tmp/ria_archive: [exists, keydirs, links]
    archive,      \* the target: [target_is_dir, parent_exists, file_exists, entries]
    pc,           \* pc[p]: where process p stands in __call__
    keypaths,     \* keypaths[p]: the enumerated key paths not yet iterated
    keypath,      \* keypath[p]: the loop variable
    results,      \* results[p]: the statuses yielded to the caller
    raised,       \* raised[p]: the call that raised out of __call__, or "none"
    obs,          \* obs[p]: what the current run of p saw and did
    runs          \* runs[p]: invocations started by p

vars == <<hashdirs, annex_objs, exportdir, archive, pc, keypaths, keypath, results, raised, obs, runs>>

\* keydir = exportdir / hashdir / key, relative to exportdir
keydir_of(key) == hashdirs[key] \o <<key>>
\* keydir / key: the place of the hardlink
leaf_of(key) == keydir_of(key) \o <<key>>

NoPath == <<>>

\* the bookkeeping of a run that starts on the filesystem as it is
NewObs(a, e, t) ==
    [pre |-> [annex_objs |-> a, exportdir |-> e, archive |-> t],
     enumerated |-> {}, linked |-> {}, calls7z |-> 0, exit7z |-> "none",
     removed |-> FALSE, saw_exportdir |-> FALSE]

NoExportdir == [exists |-> FALSE, keydirs |-> {}, links |-> {}]

\* the files enumerated lie in subdirectories that exist
StoreStates ==
    {[isdir |-> FALSE, subdirs |-> {}, files |-> {}]} \cup
    {[isdir |-> TRUE, subdirs |-> s, files |-> f] :
        <<s, f>> \in {sf \in (SUBSET Dirs) \X (SUBSET KeyPaths) :
                        \A kp \in sf[2] : kp[1] \in sf[1]}}

\* nothing staged, or the empty directory an interrupted run left behind
ExportdirStates == {NoExportdir, [NoExportdir EXCEPT !.exists = TRUE]}

\* the target is an existing directory, or a file path whose parent exists or not
ArchiveStates ==
    {[target_is_dir |-> d, parent_exists |-> q, file_exists |-> FALSE, entries |-> {}] :
        <<d, q>> \in {<<TRUE, TRUE>>, <<FALSE, TRUE>>, <<FALSE, FALSE>>}}

\* md5sum = md5(key.encode()).hexdigest(); hashdir = op.join(md5sum[:3], md5sum[3:6])
InitFs ==
    /\ hashdirs = [key \in Keys |-> hashdir(hexdigest(key))]
    /\ annex_objs \in StoreStates
    /\ exportdir \in ExportdirStates
    /\ archive \in ArchiveStates

InitProcs(active) ==
    /\ pc = [p \in Procs |-> IF p \in active THEN "resolve" ELSE "off"]
    /\ keypaths = [p \in Procs |-> {}]
    /\ keypath = [p \in Procs |-> NoPath]
    /\ results = [p \in Procs |-> <<>>]
    /\ raised = [p \in Procs |-> "none"]
    /\ obs = [p \in Procs |-> NewObs(annex_objs, exportdir, archive)]
    /\ runs = [p \in Procs |-> IF p \in active THEN 1 ELSE 0]

\* one process runs the command, MaxRuns times at most
Init == InitFs /\ InitProcs({1})

\* two processes run the command once each, side by side
InitConc == InitFs /\ InitProcs(Procs)

\* ---------------------------------------------------------- the filesystem
\* exportdir.exists() read as "holds something"
exportdir_nonempty(e) == e.keydirs # {}
\* exportdir.is_file() in the place of exportdir.exists()
exportdir_is_file(e) == FALSE
\* exportdir.exists()
exportdir_exists(e) == e.exists

\* k.is_file() over annex_objs.glob('**/*'): the subdirectories are dropped
glob_files(a) ==
    LET entries == {<<d>> : d \in a.subdirs} \cup a.files
    IN  {k \in entries : Len(k) = 2}

\* the loop left one iteration early
keypaths_exhausted_early(remaining) == Cardinality(remaining) <= 1
\* for keypath in keypaths: no element is left
keypaths_exhausted(remaining) == remaining = {}

\* keydir.mkdir(parents=True, exist_ok=True)
mkdir_p(e, key) == [e EXCEPT !.exists = TRUE, !.keydirs = @ \cup {keydir_of(key)}]

\* os.link raises when the leaf is taken or its directory is gone
link_fails(e, kp) ==
    \/ keydir_of(kp[2]) \notin e.keydirs
    \/ \E l \in e.links : l.at = leaf_of(kp[2])

\* os.rename in the place of os.link: the key file leaves the object store
os_rename(a, e, kp) ==
    [annex_objs |-> [a EXCEPT !.files = @ \ {kp}],
     exportdir |-> [e EXCEPT !.links = @ \cup {[at |-> leaf_of(kp[2]), to |-> kp]}]]
\* os.link(str(keypath), str(keydir / key)): a second name for the key file
os_link(a, e, kp) ==
    [annex_objs |-> a,
     exportdir |-> [e EXCEPT !.links = @ \cup {[at |-> leaf_of(kp[2]), to |-> kp]}]]

\* rmtree(path, children_only=True): the root directory stays
rmtree_children_only(e) == [NoExportdir EXCEPT !.exists = e.exists]
\* rmtree(str(exportdir)) of an existing tree
rmtree(e) == NoExportdir

\* 7z u <archive> . in exportdir: the staged leaves are added to the archive
archive_updated(t, e) ==
    [t EXCEPT !.file_exists = TRUE, !.entries = @ \cup {l.at : l \in e.links}]

\* -------------------------------------------------------------- __call__
Yield(p, status) == results' = [results EXCEPT ![p] = Append(@, status)]
Goto(p, label) == pc' = [pc EXCEPT ![p] = label]

\* archive = resolve_path(target, dataset); a file target gets its parents made
ResolveArchive(p) ==
    /\ pc[p] = "resolve"
    /\ archive' = IF archive.target_is_dir THEN archive
                  ELSE [archive EXCEPT !.parent_exists = TRUE]
    /\ Goto(p, "check_objs")
    /\ UNCHANGED <<hashdirs, annex_objs, exportdir, keypaths, keypath, results, raised, obs, runs>>

\* if not annex_objs.is_dir(): yield notneeded; return
CheckAnnexObjs(p) ==
    /\ pc[p] = "check_objs"
    /\ IF ~annex_objs.isdir
       THEN Yield(p, "notneeded") /\ Goto(p, "done")
       ELSE Goto(p, "check_exportdir") /\ UNCHANGED results
    /\ UNCHANGED <<hashdirs, annex_objs, exportdir, archive, keypaths, keypath, raised, obs, runs>>

\* if exportdir.exists(): yield error; return
CheckExportdir(p) ==
    /\ pc[p] = "check_exportdir"
    /\ obs' = [obs EXCEPT ![p].saw_exportdir = exportdir.exists]
    /\ IF exportdir_exists(exportdir)
       THEN Yield(p, "error") /\ Goto(p, "done")
       ELSE Goto(p, "glob") /\ UNCHANGED results
    /\ UNCHANGED <<hashdirs, annex_objs, exportdir, archive, keypaths, keypath, raised, runs>>

\* keypaths = [k for k in annex_objs.glob('**/*') if k.is_file()]
Glob(p) ==
    /\ pc[p] = "glob"
    /\ keypaths' = [keypaths EXCEPT ![p] = glob_files(annex_objs)]
    /\ obs' = [obs EXCEPT ![p].enumerated = glob_files(annex_objs)]
    /\ Goto(p, "for")
    /\ UNCHANGED <<hashdirs, annex_objs, exportdir, archive, keypath, results, raised, runs>>

\* for keypath in keypaths: the order of the glob is any order
ForKeypath(p) ==
    /\ pc[p] = "for"
    /\ IF keypaths_exhausted(keypaths[p])
       THEN Goto(p, "run7z") /\ UNCHANGED <<hashdirs, keypaths, keypath>>
       ELSE \E kp \in keypaths[p] :
               /\ keypath' = [keypath EXCEPT ![p] = kp]
               /\ keypaths' = [keypaths EXCEPT ![p] = @ \ {kp}]
               /\ Goto(p, "mkdir")
    /\ UNCHANGED <<hashdirs, annex_objs, exportdir, archive, results, raised, obs, runs>>

\* keydir = exportdir / hashdir / key; keydir.mkdir(parents=True, exist_ok=True)
Mkdir(p) ==
    /\ pc[p] = "mkdir"
    /\ exportdir' = mkdir_p(exportdir, keypath[p][2])
    /\ Goto(p, "link")
    /\ UNCHANGED <<hashdirs, annex_objs, archive, keypaths, keypath, results, raised, obs, runs>>

\* os.link(str(keypath), str(keydir / key)), outside any try: an OSError leaves __call__
Link(p) ==
    /\ pc[p] = "link"
    /\ \E refused \in BOOLEAN :
          IF refused \/ link_fails(exportdir, keypath[p])
          THEN /\ raised' = [raised EXCEPT ![p] = "os.link"]
               /\ Goto(p, "done")
               /\ UNCHANGED <<hashdirs, annex_objs, exportdir, obs>>
          ELSE LET fs == os_link(annex_objs, exportdir, keypath[p])
               IN  /\ annex_objs' = fs.annex_objs
                   /\ exportdir' = fs.exportdir
                   /\ obs' = [obs EXCEPT ![p].linked = @ \cup {keypath[p]}]
                   /\ Goto(p, "for")
                   /\ UNCHANGED raised
    /\ UNCHANGED <<hashdirs, archive, keypaths, keypath, results, runs>>

\* the statuses subprocess.run can end with: the exit status of 7z is not looked at
\* (no check=True); Popen raises OSError when 7z or the cwd is missing
Exits7z == {"zero", "nonzero", "oserror", "fault"}

\* try: subprocess.run(['7z', 'u', str(archive), '.'] + opts, cwd=str(exportdir))
Run7z(p) ==
    /\ pc[p] = "run7z"
    /\ \E exit \in Exits7z, wrote \in BOOLEAN :
          /\ ~exportdir.exists => exit = "oserror"
          /\ exit = "zero" => wrote
          /\ exit \in {"oserror", "fault"} => ~wrote
          /\ archive' = IF wrote THEN archive_updated(archive, exportdir) ELSE archive
          /\ obs' = [obs EXCEPT ![p].calls7z = @ + 1, ![p].exit7z = exit]
          /\ Goto(p, IF exit \in {"zero", "nonzero"} THEN "yield_ok" ELSE "yield_error")
    /\ UNCHANGED <<hashdirs, annex_objs, exportdir, keypaths, keypath, results, raised, runs>>

\* yield get_status_dict(path=str(archive), type='file', status='ok')
YieldOk(p) ==
    /\ pc[p] = "yield_ok"
    /\ Yield(p, "ok")
    /\ Goto(p, "finally")
    /\ UNCHANGED <<hashdirs, annex_objs, exportdir, archive, keypaths, keypath, raised, obs, runs>>

\* except Exception as e: yield get_status_dict(status='error', ...); return
YieldError(p) ==
    /\ pc[p] = "yield_error"
    /\ Yield(p, "error")
    /\ Goto(p, "finally")
    /\ UNCHANGED <<hashdirs, annex_objs, exportdir, archive, keypaths, keypath, raised, obs, runs>>

\* finally: rmtree(str(exportdir)); on a path that is not there datalad's rmtree
\* falls to unlink, which returns or raises by the library's version
Finally(p) ==
    /\ pc[p] = "finally"
    /\ IF exportdir.exists
       THEN /\ exportdir' = rmtree(exportdir)
            /\ obs' = [obs EXCEPT ![p].removed = TRUE]
            /\ UNCHANGED raised
       ELSE /\ \E raises \in BOOLEAN :
                  raised' = [raised EXCEPT ![p] = IF raises THEN "rmtree" ELSE @]
            /\ UNCHANGED <<hashdirs, exportdir, obs>>
    /\ Goto(p, "done")
    /\ UNCHANGED <<hashdirs, annex_objs, archive, keypaths, keypath, results, runs>>

\* the command is run again on the filesystem the last run left
Restart(p) ==
    /\ pc[p] = "done"
    /\ runs[p] < MaxRuns
    /\ runs' = [runs EXCEPT ![p] = @ + 1]
    /\ Goto(p, "resolve")
    /\ keypaths' = [keypaths EXCEPT ![p] = {}]
    /\ keypath' = [keypath EXCEPT ![p] = NoPath]
    /\ results' = [results EXCEPT ![p] = <<>>]
    /\ raised' = [raised EXCEPT ![p] = "none"]
    /\ obs' = [obs EXCEPT ![p] = NewObs(annex_objs, exportdir, archive)]
    /\ UNCHANGED <<hashdirs, annex_objs, exportdir, archive>>

Call(p) ==
    \/ ResolveArchive(p)
    \/ CheckAnnexObjs(p)
    \/ CheckExportdir(p)
    \/ Glob(p)
    \/ ForKeypath(p)
    \/ Mkdir(p)
    \/ Link(p)
    \/ Run7z(p)
    \/ YieldOk(p)
    \/ YieldError(p)
    \/ Finally(p)

Next == \E p \in Procs : Call(p) \/ Restart(p)

NextConc == \E p \in Procs : Call(p)

Spec == Init /\ [][Next]_vars

SpecConc == InitConc /\ [][NextConc]_vars

Active == {p \in Procs : pc[p] # "off"}
Done(p) == pc[p] = "done"

\* ------------------------------------------------------------------ claims
\* the hardlinks a run owes the archiver: one per enumerated key path, at its leaf
Owed(p) == {[at |-> leaf_of(kp[2]), to |-> kp] : kp \in obs[p].enumerated}
\* the part of the archive record that is the archive file
ArchiveFile(t) == <<t.file_exists, t.entries>>
\* between passing the staging check and the end of cleanup
InFlight == {"glob", "for", "mkdir", "link", "run7z", "yield_ok", "yield_error", "finally"}

\* C1: a run that reached the archiver (all enumerated keys linked) ends with no
\* staging directory, whatever the archiver did: exit zero, exit nonzero, not
\* invocable, or an unexpected fault.
C1_StagingGoneAfterArchiver ==
    \A p \in Active : Done(p) /\ obs[p].calls7z > 0 => ~exportdir.exists
C1_Witness ==
    \E p \in Active : /\ Done(p)
                      /\ obs[p].exit7z = "fault"
                      /\ obs[p].linked # {}
                      /\ obs[p].removed

\* C2: when os.link fails for some key, the run invokes no archiver and ends with
\* no staging directory.
C2_LinkFailureCleansUp ==
    \A p \in Active : Done(p) /\ raised[p] = "os.link" =>
        obs[p].calls7z = 0 /\ ~exportdir.exists

\* C3: an archiver that exits nonzero or cannot be invoked gives the outcome error;
\* the outcome is ok only when the archiver exited zero.
C3_ArchiverFailureIsError ==
    \A p \in Active : Done(p) /\ obs[p].calls7z > 0 =>
        /\ obs[p].exit7z \in {"nonzero", "oserror"} => results[p] = <<"error">>
        /\ results[p] = <<"ok">> => obs[p].exit7z = "zero"

\* C4: with the object-store root missing, or present without a regular file, the
\* run ends notneeded, invokes no archiver and writes nothing to the filesystem.
C4_EmptyStoreIsNoop ==
    \A p \in Active :
        Done(p) /\ (~obs[p].pre.annex_objs.isdir \/ obs[p].pre.annex_objs.files = {}) =>
            /\ results[p] = <<"notneeded">>
            /\ obs[p].calls7z = 0
            /\ <<annex_objs, exportdir, archive>> =
                   <<obs[p].pre.annex_objs, obs[p].pre.exportdir, obs[p].pre.archive>>

\* what C5 promises of a run that ends
ConflictAbort(p) ==
    /\ results[p] = <<"error">>
    /\ raised[p] = "none"
    /\ obs[p].linked = {}
    /\ obs[p].calls7z = 0
    /\ annex_objs = obs[p].pre.annex_objs
    /\ ArchiveFile(archive) = ArchiveFile(obs[p].pre.archive)
    /\ exportdir = obs[p].pre.exportdir

\* C5 as written: a staging directory present when the run begins makes the run end
\* in error without linking or archiving, whatever the object store is (missing,
\* empty or populated), with store, archive file and staging directory unchanged.
C5_ConflictWhateverTheStore ==
    \A p \in Active : Done(p) /\ obs[p].pre.exportdir.exists => ConflictAbort(p)
\* C5 amended: the same, for an object-store root that is a directory (empty or
\* populated); with the root missing the run ends notneeded before the staging check.
C5_ConflictWithStoreDir ==
    \A p \in Active :
        /\ Done(p) /\ obs[p].pre.exportdir.exists /\ obs[p].pre.annex_objs.isdir
              => ConflictAbort(p)
        /\ Done(p) /\ obs[p].pre.exportdir.exists /\ ~obs[p].pre.annex_objs.isdir
              => results[p] = <<"notneeded">> /\ exportdir = obs[p].pre.exportdir
C5_Witness ==
    \E p \in Active : /\ Done(p)
                      /\ obs[p].pre.exportdir.exists
                      /\ obs[p].pre.annex_objs.files # {}
                      /\ results[p] = <<"error">>

\* C6: every invocation ends with exactly one outcome (notneeded, error or ok)
\* delivered and with no exception leaving __call__.
C6_ExactlyOneOutcome ==
    \A p \in Active : Done(p) =>
        /\ Len(results[p]) = 1
        /\ results[p][1] \in {"notneeded", "error", "ok"}
        /\ raised[p] = "none"

\* the first six characters of the MD5 hex digests of the key names, from hashlib:
\* md5(b"MD5E-s10--abc123") = e81b2966..., md5(b"SHA256E-s20--def456") = 92769370...
DigestHead(key) ==
    IF key = KeyMD5E THEN <<<<101, 56, 49>>, <<98, 50, 57>>>>
    ELSE <<<<57, 50, 55>>, <<54, 57, 51>>>>

\* C7: every hardlink staged, and every entry archived, lies at
\* <outer>/<inner>/<key>/<key> with <outer> the first three and <inner> the next
\* three lowercase hex characters of the MD5 digest of the key name, the same in
\* every run.
C7_StagedLeafPath ==
    /\ \A l \in exportdir.links :
          l.at = <<DigestHead(l.to[2])[1], DigestHead(l.to[2])[2], l.to[2], l.to[2]>>
    /\ \A at \in archive.entries :
          /\ Len(at) = 4
          /\ at[3] \in Keys /\ at[4] = at[3]
          /\ <<at[1], at[2]>> = DigestHead(at[3])
C7_Witness ==
    /\ runs[1] = 2
    /\ {l.to[2] : l \in exportdir.links} = Keys
    /\ {at[3] : at \in archive.entries} = Keys

\* C8: the object store is the same in every state of a run as when the run began:
\* same subdirectories, same key files; what is staged links files of the store.
C8_StoreUnchanged ==
    \A p \in Active :
        /\ annex_objs = obs[p].pre.annex_objs
        /\ obs[p].linked \subseteq annex_objs.files
C8_Witness ==
    \E p \in Active : /\ Done(p)
                      /\ obs[p].removed
                      /\ Cardinality(obs[p].linked) >= 2
                      /\ annex_objs.files = obs[p].linked

\* C9: the archiver is invoked at most once per run; when it is invoked every
\* enumerated key path has its hardlink at its leaf in the staging tree; after the
\* invocation the run is past the loop and links nothing more.
C9_ArchiverAfterLinking ==
    \A p \in Active :
        /\ obs[p].calls7z <= 1
        /\ pc[p] = "run7z" => Owed(p) \subseteq exportdir.links
        /\ pc[p] = "run7z" \/ obs[p].calls7z = 1 =>
              /\ obs[p].linked = obs[p].enumerated
              /\ keypaths[p] = {}
        /\ obs[p].calls7z = 1 => pc[p] \in {"yield_ok", "yield_error", "finally", "done"}
C9_Witness ==
    \E p \in Active : /\ pc[p] = "run7z"
                      /\ Cardinality(obs[p].enumerated) >= 2
                      /\ Owed(p) \subseteq exportdir.links

\* C10 as written: of two runs side by side on one object store, at most one is ever
\* between passing the staging check and the end of its cleanup.
C10_OneInFlight ==
    Cardinality({p \in Active : pc[p] \in InFlight}) <= 1
\* C10 amended: a run whose staging check finds the directory there ends in error at
\* once, links nothing, invokes no archiver and removes nothing (two runs whose checks
\* both come before the first mkdir are both in flight).
C10_ConflictingRunAborts ==
    \A p \in Active : obs[p].saw_exportdir =>
        /\ Done(p)
        /\ results[p] = <<"error">>
        /\ raised[p] = "none"
        /\ obs[p].linked = {}
        /\ obs[p].calls7z = 0
        /\ ~obs[p].removed
C10_Witness ==
    \E p, q \in Active : /\ pc[p] \in {"link", "for", "run7z"}
                         /\ obs[p].linked # {}
                         /\ obs[q].saw_exportdir
                         /\ ~obs[q].pre.exportdir.exists
                         /\ Done(q)
====
